---- MODULE Spec2Model ----
(***************************************************************************)
(* A state-machine model of tempus_fugit_minecraft.player.Player: the      *)
(* player's kinematic state and every handler that changes it.             *)
(*                                                                         *)
(* Python floats are modelled in fixed point, so that every operation of   *)
(* the handlers is exact integer arithmetic:                               *)
(*   delta_time        in 1/2 second                                       *)
(*   walking speed     in 1/3 block per second (slow_walking_speed gives   *)
(*                     5/3)                                                *)
(*   vertical velocity and jump speed in whole blocks per second           *)
(*   angles            in 1/100 degree (adjust_sight's factor is 0.15)     *)
(*   sine and cosine   in 1/1000                                           *)
(*   positions         in 1/6000 block (= 1/2 s * 1/3 block/s * 1/1000)    *)
(***************************************************************************)
EXTENDS Integers, Sequences, FiniteSets

Units == [time |-> 2, speed |-> 3, angle |-> 100, trig |-> 1000, position |-> 6000]

(***************************************************************************)
(* Bounds of the model.                                                    *)
(***************************************************************************)
\* delta_time ranges over 1..MaxDeltaTime half seconds.
MaxDeltaTime == 3
\* start_sprinting is explored while the doubled speed stays within this many blocks per second.
MaxWalkingSpeed == 100
\* adjust_sight is explored while |yaw| stays within this many degrees.
MaxYaw == 360
\* update is explored while the resolved position stays within this many blocks of the world's edge
\* (outside it), and as far up and down as sideways.
MaxMargin == 8

(***************************************************************************)
(* Player.__init__: the constants.                                         *)
(***************************************************************************)
MAX_JUMP_HEIGHT_IN_BLOCKS == 1
PLAYER_HEIGHT_IN_BLOCKS == 2
MAX_FALL_SPEED_IN_BLOCKS_PER_SECOND == 50
FLYING_SPEED_IN_BLOCKS_PER_SECOND == 15
GRAVITY_IN_BLOCKS_PER_SECOND_SQUARED == 20
MAX_SPEED_IN_BLOCKS_PER_SECOND == 15
MIN_SPEED_IN_BLOCKS_PER_SECOND == 5
WALK_SPEED_IN_BLOCKS_PER_SECOND == 5

\* int(math.sqrt(n)): the integer part of the square root.
IntSqrt(n) == CHOOSE k \in 0..n : k * k <= n /\ (k + 1) * (k + 1) > n

INITIAL_JUMP_SPEED_IN_BLOCKS_PER_SECOND ==
    IntSqrt(2 * GRAVITY_IN_BLOCKS_PER_SECOND_SQUARED * MAX_JUMP_HEIGHT_IN_BLOCKS)
MAX_JUMP_SPEED_IN_BLOCKS_PER_SECOND == INITIAL_JUMP_SPEED_IN_BLOCKS_PER_SECOND + 10
MIN_JUMP_SPEED_IN_BLOCKS_PER_SECOND == INITIAL_JUMP_SPEED_IN_BLOCKS_PER_SECOND

\* The step of increase_jump_speed and decrease_jump_speed.
JUMP_SPEED_STEP == 5

\* World.WIDTH_FROM_ORIGIN_IN_BLOCKS: the half width of the square world.
WIDTH_FROM_ORIGIN_IN_BLOCKS == 80

inventory == <<"BRICK", "GRASS", "SAND", "TREE_TRUNK", "TREE_LEAVES", "LIGHT_CLOUD", "DARK_CLOUD">>

(***************************************************************************)
(* The state: the fields of Player, the direction keys the driver holds    *)
(* down, and the call completed last.                                      *)
(***************************************************************************)
VARIABLES
    jump_speed_in_blocks_per_second,
    walking_speed_in_blocks_per_second,     \* in 1/3 block per second
    flying,
    ascend,
    descend,
    strafe_unit_vector,                     \* <<forward(-1)/back(1), left(-1)/right(1)>>
    position_in_blocks_from_origin,         \* <<x, y, z>> in 1/6000 block
    rotation_in_degrees,                    \* <<yaw, pitch>> in 1/100 degree
    vertical_velocity_in_blocks_per_second,
    selected_block,
    keys_held,                              \* the direction keys that are down
    last                                    \* the call completed last: [op, args, raised]

vars == <<jump_speed_in_blocks_per_second, walking_speed_in_blocks_per_second, flying, ascend,
          descend, strafe_unit_vector, position_in_blocks_from_origin, rotation_in_degrees,
          vertical_velocity_in_blocks_per_second, selected_block, keys_held, last>>

Called(op, args) == [op |-> op, args |-> args, raised |-> "none", returned |-> <<>>]
Raised(op, args, error) == [op |-> op, args |-> args, raised |-> error, returned |-> <<>>]
Returned(op, value) == [op |-> op, args |-> <<>>, raised |-> "none", returned |-> value]

Max(a, b) == IF a >= b THEN a ELSE b
Min(a, b) == IF a <= b THEN a ELSE b
Abs(a) == IF a >= 0 THEN a ELSE -a

Init ==
    /\ jump_speed_in_blocks_per_second = INITIAL_JUMP_SPEED_IN_BLOCKS_PER_SECOND
    /\ walking_speed_in_blocks_per_second = WALK_SPEED_IN_BLOCKS_PER_SECOND * Units.speed
    /\ flying = FALSE
    /\ ascend = FALSE
    /\ descend = FALSE
    /\ strafe_unit_vector = <<0, 0>>
    /\ position_in_blocks_from_origin = <<0, 0, 0>>
    /\ rotation_in_degrees = <<0, 0>>
    /\ vertical_velocity_in_blocks_per_second = 0
    /\ selected_block = inventory[1]
    /\ keys_held = {}
    /\ last = Called("__init__", <<>>)

(***************************************************************************)
(* The walking speed.                                                      *)
(***************************************************************************)
\* A mutant: the ceiling compared with < instead of <=.
IncreasedWalkSpeedStrict(speed) ==
    IF speed < MAX_SPEED_IN_BLOCKS_PER_SECOND * Units.speed
    THEN speed + WALK_SPEED_IN_BLOCKS_PER_SECOND * Units.speed
    ELSE speed

IncreasedWalkSpeed(speed) ==
    IF speed <= MAX_SPEED_IN_BLOCKS_PER_SECOND * Units.speed
    THEN speed + WALK_SPEED_IN_BLOCKS_PER_SECOND * Units.speed
    ELSE speed

increase_walk_speed ==
    /\ walking_speed_in_blocks_per_second' = IncreasedWalkSpeed(walking_speed_in_blocks_per_second)
    /\ last' = Called("increase_walk_speed", <<>>)
    /\ UNCHANGED <<jump_speed_in_blocks_per_second, flying, ascend, descend, strafe_unit_vector,
                   position_in_blocks_from_origin, rotation_in_degrees,
                   vertical_velocity_in_blocks_per_second, selected_block, keys_held>>

\* A decrease that still steps down at the minimum speed.
DecreasedWalkSpeedAtLeast(speed) ==
    IF speed >= MIN_SPEED_IN_BLOCKS_PER_SECOND * Units.speed
    THEN speed - 5 * Units.speed
    ELSE speed

\* A decrease that stops at the minimum speed.
DecreasedWalkSpeedToMinimum(speed) ==
    IF speed > MIN_SPEED_IN_BLOCKS_PER_SECOND * Units.speed
    THEN Max(speed - 5 * Units.speed, MIN_SPEED_IN_BLOCKS_PER_SECOND * Units.speed)
    ELSE speed

\* A decrease without the check against the minimum speed.
DecreasedWalkSpeedUnguarded(speed) == speed - 5 * Units.speed

DecreasedWalkSpeed(speed) ==
    IF speed > MIN_SPEED_IN_BLOCKS_PER_SECOND * Units.speed
    THEN speed - WALK_SPEED_IN_BLOCKS_PER_SECOND * Units.speed
    ELSE speed

decrease_walk_speed ==
    /\ walking_speed_in_blocks_per_second' = DecreasedWalkSpeed(walking_speed_in_blocks_per_second)
    /\ last' = Called("decrease_walk_speed", <<>>)
    /\ UNCHANGED <<jump_speed_in_blocks_per_second, flying, ascend, descend, strafe_unit_vector,
                   position_in_blocks_from_origin, rotation_in_degrees,
                   vertical_velocity_in_blocks_per_second, selected_block, keys_held>>

\* The first assertion of slow_walking_speed; the second one, speed / 3 == 5 / 3, then holds.
\* A precondition that lets every speed from 5 upwards through.
SlowPreconditionAtLeast(speed) == speed >= 5 * Units.speed

SlowPrecondition(speed) == speed = 5 * Units.speed

slow_walking_speed ==
    /\ IF SlowPrecondition(walking_speed_in_blocks_per_second)
       THEN /\ walking_speed_in_blocks_per_second' = walking_speed_in_blocks_per_second \div 3
            /\ last' = Called("slow_walking_speed", <<>>)
       ELSE /\ walking_speed_in_blocks_per_second' = walking_speed_in_blocks_per_second
            /\ last' = Raised("slow_walking_speed", <<>>, "AssertionError")
    /\ UNCHANGED <<jump_speed_in_blocks_per_second, flying, ascend, descend, strafe_unit_vector,
                   position_in_blocks_from_origin, rotation_in_degrees,
                   vertical_velocity_in_blocks_per_second, selected_block, keys_held>>

reset_walking_speed ==
    /\ walking_speed_in_blocks_per_second' = 5 * Units.speed
    /\ last' = Called("reset_walking_speed", <<>>)
    /\ UNCHANGED <<jump_speed_in_blocks_per_second, flying, ascend, descend, strafe_unit_vector,
                   position_in_blocks_from_origin, rotation_in_degrees,
                   vertical_velocity_in_blocks_per_second, selected_block, keys_held>>

\* A sprint that stops at the maximum speed.
StartSprintingCapped ==
    /\ walking_speed_in_blocks_per_second' =
           IF walking_speed_in_blocks_per_second * 2
                  <= MAX_SPEED_IN_BLOCKS_PER_SECOND * Units.speed
           THEN walking_speed_in_blocks_per_second * 2
           ELSE walking_speed_in_blocks_per_second
    /\ last' = Called("start_sprinting", <<>>)
    /\ UNCHANGED <<jump_speed_in_blocks_per_second, flying, ascend, descend, strafe_unit_vector,
                   position_in_blocks_from_origin, rotation_in_degrees,
                   vertical_velocity_in_blocks_per_second, selected_block, keys_held>>

start_sprinting ==
    /\ walking_speed_in_blocks_per_second * 2 <= MaxWalkingSpeed * Units.speed
    /\ walking_speed_in_blocks_per_second' = walking_speed_in_blocks_per_second * 2
    /\ last' = Called("start_sprinting", <<>>)
    /\ UNCHANGED <<jump_speed_in_blocks_per_second, flying, ascend, descend, strafe_unit_vector,
                   position_in_blocks_from_origin, rotation_in_degrees,
                   vertical_velocity_in_blocks_per_second, selected_block, keys_held>>

(***************************************************************************)
(* The jump speed and the jump.                                            *)
(***************************************************************************)
IncreasedJumpSpeed(speed) ==
    IF speed <= MAX_JUMP_SPEED_IN_BLOCKS_PER_SECOND THEN speed + JUMP_SPEED_STEP ELSE speed

increase_jump_speed ==
    /\ jump_speed_in_blocks_per_second' = IncreasedJumpSpeed(jump_speed_in_blocks_per_second)
    /\ last' = Called("increase_jump_speed", <<>>)
    /\ UNCHANGED <<walking_speed_in_blocks_per_second, flying, ascend, descend, strafe_unit_vector,
                   position_in_blocks_from_origin, rotation_in_degrees,
                   vertical_velocity_in_blocks_per_second, selected_block, keys_held>>

DecreasedJumpSpeed(speed) ==
    IF speed > MIN_JUMP_SPEED_IN_BLOCKS_PER_SECOND THEN speed - JUMP_SPEED_STEP ELSE speed

decrease_jump_speed ==
    /\ jump_speed_in_blocks_per_second' = DecreasedJumpSpeed(jump_speed_in_blocks_per_second)
    /\ last' = Called("decrease_jump_speed", <<>>)
    /\ UNCHANGED <<walking_speed_in_blocks_per_second, flying, ascend, descend, strafe_unit_vector,
                   position_in_blocks_from_origin, rotation_in_degrees,
                   vertical_velocity_in_blocks_per_second, selected_block, keys_held>>

\* A mutant: a jump whenever the player is not rising.
JumpVelocityWhenNotRising(velocity, jump_speed) == IF velocity <= 0 THEN jump_speed ELSE velocity

\* A jump that does not ask for the velocity.
JumpVelocityAlways(velocity, jump_speed) == jump_speed

\* The vertical velocity jump() leaves.
JumpVelocity(velocity, jump_speed) == IF velocity = 0 THEN jump_speed ELSE velocity

\* A jump that also lifts the player by a block at once.
JumpMovesPlayer ==
    /\ vertical_velocity_in_blocks_per_second' =
           JumpVelocity(vertical_velocity_in_blocks_per_second, jump_speed_in_blocks_per_second)
    /\ position_in_blocks_from_origin' =
           [position_in_blocks_from_origin EXCEPT ![2] = @ + Units.position]
    /\ last' = Called("jump", <<>>)
    /\ UNCHANGED <<jump_speed_in_blocks_per_second, walking_speed_in_blocks_per_second, flying,
                   ascend, descend, strafe_unit_vector, rotation_in_degrees, selected_block,
                   keys_held>>

jump ==
    /\ vertical_velocity_in_blocks_per_second' =
           JumpVelocity(vertical_velocity_in_blocks_per_second, jump_speed_in_blocks_per_second)
    /\ last' = Called("jump", <<>>)
    /\ UNCHANGED <<jump_speed_in_blocks_per_second, walking_speed_in_blocks_per_second, flying,
                   ascend, descend, strafe_unit_vector, position_in_blocks_from_origin,
                   rotation_in_degrees, selected_block, keys_held>>

\* A toggle that only ever turns flight on.
FlightTurnedOn(is_flying) == TRUE

\* The flying flag toggle_flight leaves.
ToggledFlight(is_flying) == ~is_flying

toggle_flight ==
    /\ flying' = ToggledFlight(flying)
    /\ last' = Called("toggle_flight", <<>>)
    /\ UNCHANGED <<jump_speed_in_blocks_per_second, walking_speed_in_blocks_per_second, ascend,
                   descend, strafe_unit_vector, position_in_blocks_from_origin,
                   rotation_in_degrees, vertical_velocity_in_blocks_per_second, selected_block,
                   keys_held>>

\* A selection that takes the remainder of the index without its sign.
SelectedItemAbs(index) == inventory[(Abs(index) % Len(inventory)) + 1]

\* The block select_active_item(index) selects: Python's % is never negative for a positive
\* length, and sequences are numbered from 1 here.
SelectedItem(index) ==
    LET selected_index == index % Len(inventory)
    IN  inventory[selected_index + 1]

select_active_item(index) ==
    /\ selected_block' = SelectedItem(index)
    /\ last' = Called("select_active_item", <<index>>)
    /\ UNCHANGED <<jump_speed_in_blocks_per_second, walking_speed_in_blocks_per_second, flying,
                   ascend, descend, strafe_unit_vector, position_in_blocks_from_origin,
                   rotation_in_degrees, vertical_velocity_in_blocks_per_second, keys_held>>

(***************************************************************************)
(* The direction keys.  The handlers only add to or subtract from the      *)
(* strafe vector; the driver calls move_X when key X goes down and stop_X  *)
(* when it comes up, so the two alternate for each key (keys_held).        *)
(***************************************************************************)
MoveForward(strafe) == <<strafe[1] - 1, strafe[2]>>
MoveBackward(strafe) == <<strafe[1] + 1, strafe[2]>>
MoveLeft(strafe) == <<strafe[1], strafe[2] - 1>>
MoveRight(strafe) == <<strafe[1], strafe[2] + 1>>
\* A mutant: stop_forward written as a copy of move_forward.
StopForwardAsMove(strafe) == <<strafe[1] - 1, strafe[2]>>
StopForward(strafe) == <<strafe[1] + 1, strafe[2]>>
StopBackward(strafe) == <<strafe[1] - 1, strafe[2]>>
StopLeft(strafe) == <<strafe[1], strafe[2] + 1>>
StopRight(strafe) == <<strafe[1], strafe[2] - 1>>

KeyDown(key, op, strafe) ==
    /\ key \notin keys_held
    /\ keys_held' = keys_held \cup {key}
    /\ strafe_unit_vector' = strafe
    /\ last' = Called(op, <<>>)
    /\ UNCHANGED <<jump_speed_in_blocks_per_second, walking_speed_in_blocks_per_second, flying,
                   ascend, descend, position_in_blocks_from_origin, rotation_in_degrees,
                   vertical_velocity_in_blocks_per_second, selected_block>>

KeyUp(key, op, strafe) ==
    /\ key \in keys_held
    /\ keys_held' = keys_held \ {key}
    /\ strafe_unit_vector' = strafe
    /\ last' = Called(op, <<>>)
    /\ UNCHANGED <<jump_speed_in_blocks_per_second, walking_speed_in_blocks_per_second, flying,
                   ascend, descend, position_in_blocks_from_origin, rotation_in_degrees,
                   vertical_velocity_in_blocks_per_second, selected_block>>

move_forward == KeyDown("forward", "move_forward", MoveForward(strafe_unit_vector))
move_backward == KeyDown("backward", "move_backward", MoveBackward(strafe_unit_vector))
move_left == KeyDown("left", "move_left", MoveLeft(strafe_unit_vector))
move_right == KeyDown("right", "move_right", MoveRight(strafe_unit_vector))
stop_forward == KeyUp("forward", "stop_forward", StopForward(strafe_unit_vector))
stop_backward == KeyUp("backward", "stop_backward", StopBackward(strafe_unit_vector))
stop_left == KeyUp("left", "stop_left", StopLeft(strafe_unit_vector))
stop_right == KeyUp("right", "stop_right", StopRight(strafe_unit_vector))

(***************************************************************************)
(* The sight.                                                              *)
(***************************************************************************)
\* A mutant: the pitch clamped at 90 only.
ClampPitchAbove(y) == Min(90 * Units.angle, y)

\* max(-90, min(90, y))
ClampPitch(y) == Max(-90 * Units.angle, Min(90 * Units.angle, y))

\* A mutant: the mouse movement clamped instead of the pitch.
AdjustedSightClampsMove(rotation, dx, dy) ==
    LET m == 15
        x == dx * m + rotation[1]
        y == ClampPitch(dy * m) + rotation[2]
    IN  <<x, y>>

\* The rotation adjust_sight(dx, dy) leaves; m = 0.15 degree is 15/100 degree.
AdjustedSight(rotation, dx, dy) ==
    LET m == 15
        x == dx * m + rotation[1]
        y == dy * m + rotation[2]
    IN  <<x, ClampPitch(y)>>

adjust_sight(dx, dy) ==
    /\ Abs(AdjustedSight(rotation_in_degrees, dx, dy)[1]) <= MaxYaw * Units.angle
    /\ rotation_in_degrees' = AdjustedSight(rotation_in_degrees, dx, dy)
    /\ last' = Called("adjust_sight", <<dx, dy>>)
    /\ UNCHANGED <<jump_speed_in_blocks_per_second, walking_speed_in_blocks_per_second, flying,
                   ascend, descend, strafe_unit_vector, position_in_blocks_from_origin,
                   vertical_velocity_in_blocks_per_second, selected_block, keys_held>>

(***************************************************************************)
(* math.sin and math.cos of an angle in 1/100 degree, in 1/1000, by        *)
(* Bhaskara's formula sin x = 4x(180 - x) / (40500 - x(180 - x)) on        *)
(* [0, 180]: exact at 0, 30, 90, 150 and 180 degrees, within 2/1000        *)
(* elsewhere.  math.radians is the change of unit the formula absorbs.     *)
(***************************************************************************)
HalfTurnSin(x) ==
    LET p == x * (180 * Units.angle - x)
    IN  (4 * p) \div ((40500 * Units.angle * Units.angle - p) \div Units.trig)

Sin(angle) ==
    LET r == angle % (360 * Units.angle)
    IN  IF r <= 180 * Units.angle THEN HalfTurnSin(r) ELSE -HalfTurnSin(r - 180 * Units.angle)

Cos(angle) == Sin(angle + 90 * Units.angle)

\* The product of two values in 1/1000, rounded towards zero.
TrigProduct(a, b) ==
    IF (a >= 0) = (b >= 0) THEN (Abs(a) * Abs(b)) \div Units.trig
    ELSE -((Abs(a) * Abs(b)) \div Units.trig)

\* math.degrees(math.atan2(y, x)) in 1/100 degree, for the eight directions and <<0, 0>>.
Atan2Degrees(y, x) ==
    CASE y = 0 /\ x >= 0 -> 0
      [] y = 0 /\ x < 0 -> 180 * Units.angle
      [] y > 0 /\ x > 0 -> 45 * Units.angle
      [] y > 0 /\ x = 0 -> 90 * Units.angle
      [] y > 0 /\ x < 0 -> 135 * Units.angle
      [] y < 0 /\ x > 0 -> -45 * Units.angle
      [] y < 0 /\ x = 0 -> -90 * Units.angle
      [] y < 0 /\ x < 0 -> -135 * Units.angle

\* A sight vector measured from the x axis, without the quarter turn.
GetSightVectorNoQuarterTurn(rotation) ==
    <<TrigProduct(Cos(rotation[1]), Cos(rotation[2])), Sin(rotation[2]),
      TrigProduct(Sin(rotation[1]), Cos(rotation[2]))>>

\* Player.get_sight_vector, in 1/1000.
get_sight_vector(rotation) ==
    LET x == rotation[1]
        y == rotation[2]
        m == Cos(y)
        dy == Sin(y)
        dx == TrigProduct(Cos(x - 90 * Units.angle), m)
        dz == TrigProduct(Sin(x - 90 * Units.angle), m)
    IN  <<dx, dy, dz>>

\* A strafe angle with atan2's arguments the other way round.
StrafeAngleSwapped(strafe) == Atan2Degrees(strafe[2], strafe[1])

\* math.degrees(math.atan2(*self.strafe_unit_vector)): the forward/back component is atan2's
\* first argument and the left/right component its second.
StrafeAngle(strafe) == Atan2Degrees(strafe[1], strafe[2])

\* A motion vector computed without asking whether any key is held.
GetMotionVectorUnchecked(strafe, rotation, is_flying) ==
    LET x_angle == rotation[1] + Atan2Degrees(strafe[1], strafe[2])
    IN  IF is_flying
        THEN LET m == IF strafe[2] # 0 THEN Units.trig ELSE Cos(rotation[2])
                 dy0 == IF strafe[2] # 0 THEN 0 ELSE Sin(rotation[2])
                 dy == IF strafe[1] > 0 THEN -dy0 ELSE dy0
             IN  <<TrigProduct(Cos(x_angle), m), dy, TrigProduct(Sin(x_angle), m)>>
        ELSE <<Cos(x_angle), 0, Sin(x_angle)>>

\* A motion vector with dx and dz in each other's place.
GetMotionVectorSwappedAxes(strafe, rotation, is_flying) ==
    IF strafe[1] # 0 \/ strafe[2] # 0
    THEN LET x_angle == rotation[1] + StrafeAngle(strafe)
             m == IF is_flying /\ strafe[2] = 0 THEN Cos(rotation[2]) ELSE Units.trig
             dy0 == IF is_flying /\ strafe[2] = 0 THEN Sin(rotation[2]) ELSE 0
             dy == IF strafe[1] > 0 THEN -dy0 ELSE dy0
         IN  <<TrigProduct(Sin(x_angle), m), dy, TrigProduct(Cos(x_angle), m)>>
    ELSE <<0, 0, 0>>

\* A motion vector that follows the pitch in lateral flight too.
GetMotionVectorLateralPitch(strafe, rotation, is_flying) ==
    IF strafe[1] # 0 \/ strafe[2] # 0
    THEN LET x_angle == rotation[1] + StrafeAngle(strafe)
             m == IF is_flying THEN Cos(rotation[2]) ELSE Units.trig
             dy0 == IF is_flying THEN Sin(rotation[2]) ELSE 0
             dy == IF strafe[1] > 0 THEN -dy0 ELSE dy0
         IN  <<TrigProduct(Cos(x_angle), m), dy, TrigProduct(Sin(x_angle), m)>>
    ELSE <<0, 0, 0>>

\* Player.get_motion_vector, in 1/1000.
get_motion_vector(strafe, rotation, is_flying) ==
    IF strafe[1] # 0 \/ strafe[2] # 0
    THEN LET x == rotation[1]
             y == rotation[2]
             strafe_angle == StrafeAngle(strafe)
             y_angle == y
             x_angle == x + strafe_angle
         IN  IF is_flying
             THEN LET m == IF strafe[2] # 0 THEN Units.trig ELSE Cos(y_angle)
                      dy0 == IF strafe[2] # 0 THEN 0 ELSE Sin(y_angle)
                      dy == IF strafe[1] > 0 THEN -dy0 ELSE dy0
                  IN  <<TrigProduct(Cos(x_angle), m), dy, TrigProduct(Sin(x_angle), m)>>
             ELSE <<Cos(x_angle), 0, Sin(x_angle)>>
    ELSE <<0, 0, 0>>

\* A current speed that ignores flight.
CurrentSpeedWalking(is_flying, walking_speed) == walking_speed

\* Player.current_speed, in 1/3 block per second.
current_speed(is_flying, walking_speed) ==
    IF is_flying THEN FLYING_SPEED_IN_BLOCKS_PER_SECOND * Units.speed ELSE walking_speed

(***************************************************************************)
(* The collision resolvers update is called with.  A resolver is any       *)
(* function of the candidate position and the player's height; the model   *)
(* draws it from: free space (the candidate itself), flat ground at y = 0  *)
(* (the candidate lifted onto it), and resolvers that put the player at a  *)
(* fixed place, inside the world, on its edge or outside it; and one that  *)
(* lifts the player by its own height, so that what it returns depends on  *)
(* both arguments and on how often it is called.                           *)
(***************************************************************************)
Blocks(n) == n * Units.position

ResolverPlaces ==
    { <<0, 0, 0>>,
      <<Blocks(WIDTH_FROM_ORIGIN_IN_BLOCKS - 3), 0, 0>>,
      <<Blocks(WIDTH_FROM_ORIGIN_IN_BLOCKS + 2), Blocks(1), -Blocks(WIDTH_FROM_ORIGIN_IN_BLOCKS + 2)>>,
      <<-Blocks(WIDTH_FROM_ORIGIN_IN_BLOCKS + 1), -Blocks(2), Blocks(WIDTH_FROM_ORIGIN_IN_BLOCKS)>> }

FreeSpace == [kind |-> "free", place |-> <<0, 0, 0>>]
FlatGround == [kind |-> "ground", place |-> <<0, 0, 0>>]
PutAt(place) == [kind |-> "put", place |-> place]
Lifted == [kind |-> "lift", place |-> <<0, 0, 0>>]

GroundResolvers == {FlatGround} \cup {PutAt(place) : place \in ResolverPlaces}
Resolvers == {FreeSpace} \cup GroundResolvers
CallResolvers == Resolvers \cup {Lifted}

collision_checker(resolver, candidate, height) ==
    CASE resolver.kind = "free" -> candidate
      [] resolver.kind = "ground" -> <<candidate[1], Max(candidate[2], 0), candidate[3]>>
      [] resolver.kind = "put" -> resolver.place
      [] resolver.kind = "lift" ->
             <<candidate[1], candidate[2] + Blocks(height), candidate[3]>>

\* The positions the model follows the player to.
InModelledRegion(position) ==
    /\ Abs(position[1]) <= Blocks(WIDTH_FROM_ORIGIN_IN_BLOCKS + MaxMargin)
    /\ Abs(position[3]) <= Blocks(WIDTH_FROM_ORIGIN_IN_BLOCKS + MaxMargin)
    /\ Abs(position[2]) <= Blocks(WIDTH_FROM_ORIGIN_IN_BLOCKS + MaxMargin)

DeltaTimes == 1..MaxDeltaTime

(***************************************************************************)
(* Player.update.                                                          *)
(***************************************************************************)
\* A mutant: gravity without the terminal velocity.
UpdatedVelocityNoTerminal(velocity, is_flying, delta_time) ==
    IF ~is_flying
    THEN velocity - (delta_time * GRAVITY_IN_BLOCKS_PER_SECOND_SQUARED) \div Units.time
    ELSE velocity

\* A velocity update that lets gravity act on a flying player too.
UpdatedVelocityAlwaysGravity(velocity, is_flying, delta_time) ==
    Max(velocity - (delta_time * GRAVITY_IN_BLOCKS_PER_SECOND_SQUARED) \div Units.time,
        -MAX_FALL_SPEED_IN_BLOCKS_PER_SECOND)

\* The vertical velocity update leaves: gravity and the terminal velocity, unless flying.
UpdatedVelocity(velocity, is_flying, delta_time) ==
    IF ~is_flying
    THEN Max(velocity - (delta_time * GRAVITY_IN_BLOCKS_PER_SECOND_SQUARED) \div Units.time,
             -MAX_FALL_SPEED_IN_BLOCKS_PER_SECOND)
    ELSE velocity

\* A vertical term that uses the velocity update found, not the one gravity left.
VerticalTermBeforeGravity(velocity, is_flying, is_ascend, is_descend, delta_time) ==
    IF ~is_flying
    THEN velocity * delta_time * (Units.position \div Units.time)
    ELSE ((IF is_ascend THEN 1 ELSE 0) - (IF is_descend THEN 1 ELSE 0)) * delta_time
             * FLYING_SPEED_IN_BLOCKS_PER_SECOND * (Units.position \div Units.time)

\* The vertical term update adds to the motion vector's dy, in 1/6000 block.
VerticalTerm(velocity, is_flying, is_ascend, is_descend, delta_time) ==
    IF ~is_flying
    THEN UpdatedVelocity(velocity, is_flying, delta_time) * delta_time
             * (Units.position \div Units.time)
    ELSE LET vertical_direction_modifier ==
                 (IF is_ascend THEN 1 ELSE 0) - (IF is_descend THEN 1 ELSE 0)
         IN  vertical_direction_modifier * delta_time * FLYING_SPEED_IN_BLOCKS_PER_SECOND
                 * (Units.position \div Units.time)

\* The position update hands to the collision resolver.
CandidatePosition(position, strafe, rotation, is_flying, is_ascend, is_descend, walking_speed, velocity, delta_time) ==
    LET speed == current_speed(is_flying, walking_speed)
        d == delta_time * speed
        motion == get_motion_vector(strafe, rotation, is_flying)
        dx == motion[1] * d
        dy == motion[2] * d + VerticalTerm(velocity, is_flying, is_ascend, is_descend, delta_time)
        dz == motion[3] * d
    IN  <<position[1] + dx, position[2] + dy, position[3] + dz>>

\* The position update leaves.
UpdatedPosition(delta_time, resolver) ==
    collision_checker(resolver,
                      CandidatePosition(position_in_blocks_from_origin, strafe_unit_vector,
                                        rotation_in_degrees, flying, ascend, descend,
                                        walking_speed_in_blocks_per_second,
                                        vertical_velocity_in_blocks_per_second, delta_time),
                      PLAYER_HEIGHT_IN_BLOCKS)

update(delta_time, resolver) ==
    /\ InModelledRegion(UpdatedPosition(delta_time, resolver))
    /\ vertical_velocity_in_blocks_per_second' =
           UpdatedVelocity(vertical_velocity_in_blocks_per_second, flying, delta_time)
    /\ position_in_blocks_from_origin' = UpdatedPosition(delta_time, resolver)
    /\ last' = Called("update", <<delta_time, resolver>>)
    /\ UNCHANGED <<jump_speed_in_blocks_per_second, walking_speed_in_blocks_per_second, flying,
                   ascend, descend, strafe_unit_vector, rotation_in_degrees, selected_block,
                   keys_held>>

(***************************************************************************)
(* The world's boundaries.                                                 *)
(***************************************************************************)
\* A mutant: the lower boundary forgotten.
KeepBelowBoundary(dimension, boundary_size) ==
    IF dimension > boundary_size THEN boundary_size ELSE dimension

keep_player_within_coordinates(dimension, boundary_size) ==
    IF dimension > boundary_size THEN boundary_size
    ELSE IF dimension < -boundary_size THEN -boundary_size
    ELSE dimension

\* A mutant: z taken from x.
WithinWorldBoundariesXTwice(position) ==
    LET x == keep_player_within_coordinates(position[1], Blocks(WIDTH_FROM_ORIGIN_IN_BLOCKS))
        z == keep_player_within_coordinates(position[1], Blocks(WIDTH_FROM_ORIGIN_IN_BLOCKS))
    IN  <<x, position[2], z>>

\* The position check_player_within_world_boundaries leaves.
WithinWorldBoundaries(position) ==
    LET x == keep_player_within_coordinates(position[1], Blocks(WIDTH_FROM_ORIGIN_IN_BLOCKS))
        z == keep_player_within_coordinates(position[3], Blocks(WIDTH_FROM_ORIGIN_IN_BLOCKS))
    IN  <<x, position[2], z>>

check_player_within_world_boundaries ==
    /\ position_in_blocks_from_origin' = WithinWorldBoundaries(position_in_blocks_from_origin)
    /\ last' = Called("check_player_within_world_boundaries", <<>>)
    /\ UNCHANGED <<jump_speed_in_blocks_per_second, walking_speed_in_blocks_per_second, flying,
                   ascend, descend, strafe_unit_vector, rotation_in_degrees,
                   vertical_velocity_in_blocks_per_second, selected_block, keys_held>>

\* One tick of the game loop: Player.update, then the boundary pass, before anything else runs.
tick(delta_time, resolver) ==
    /\ InModelledRegion(UpdatedPosition(delta_time, resolver))
    /\ vertical_velocity_in_blocks_per_second' =
           UpdatedVelocity(vertical_velocity_in_blocks_per_second, flying, delta_time)
    /\ position_in_blocks_from_origin' = WithinWorldBoundaries(UpdatedPosition(delta_time, resolver))
    /\ last' = Called("tick", <<delta_time, resolver>>)
    /\ UNCHANGED <<jump_speed_in_blocks_per_second, walking_speed_in_blocks_per_second, flying,
                   ascend, descend, strafe_unit_vector, rotation_in_degrees, selected_block,
                   keys_held>>

(***************************************************************************)
(* The two queries, as calls: they return a vector and write no field.     *)
(***************************************************************************)
call_get_sight_vector ==
    /\ last' = Returned("get_sight_vector", get_sight_vector(rotation_in_degrees))
    /\ UNCHANGED <<jump_speed_in_blocks_per_second, walking_speed_in_blocks_per_second, flying,
                   ascend, descend, strafe_unit_vector, position_in_blocks_from_origin,
                   rotation_in_degrees, vertical_velocity_in_blocks_per_second, selected_block,
                   keys_held>>

call_get_motion_vector ==
    /\ last' = Returned("get_motion_vector",
                        get_motion_vector(strafe_unit_vector, rotation_in_degrees, flying))
    /\ UNCHANGED <<jump_speed_in_blocks_per_second, walking_speed_in_blocks_per_second, flying,
                   ascend, descend, strafe_unit_vector, position_in_blocks_from_origin,
                   rotation_in_degrees, vertical_velocity_in_blocks_per_second, selected_block,
                   keys_held>>

(***************************************************************************)
(* The flight keys.  Player only reads ascend and descend (in update); the *)
(* driver writes the two fields.                                           *)
(***************************************************************************)
set_ascend(value) ==
    /\ ascend' = value
    /\ last' = Called("set_ascend", <<value>>)
    /\ UNCHANGED <<jump_speed_in_blocks_per_second, walking_speed_in_blocks_per_second, flying,
                   descend, strafe_unit_vector, position_in_blocks_from_origin,
                   rotation_in_degrees, vertical_velocity_in_blocks_per_second, selected_block,
                   keys_held>>

set_descend(value) ==
    /\ descend' = value
    /\ last' = Called("set_descend", <<value>>)
    /\ UNCHANGED <<jump_speed_in_blocks_per_second, walking_speed_in_blocks_per_second, flying,
                   ascend, strafe_unit_vector, position_in_blocks_from_origin,
                   rotation_in_degrees, vertical_velocity_in_blocks_per_second, selected_block,
                   keys_held>>

(***************************************************************************)
(* The specifications: the whole player, and one per group of handlers.    *)
(***************************************************************************)
\* The mouse movements and inventory indices the handlers are called with.
MouseMoves == {-700, -200, 0, 300, 700}
ItemIndices == -8..8

WalkSpeedStep ==
    \/ increase_walk_speed
    \/ decrease_walk_speed
    \/ start_sprinting
    \/ slow_walking_speed
    \/ reset_walking_speed

JumpSpeedStep ==
    \/ increase_jump_speed
    \/ decrease_jump_speed

KeyStep ==
    \/ move_forward
    \/ move_backward
    \/ move_left
    \/ move_right
    \/ stop_forward
    \/ stop_backward
    \/ stop_left
    \/ stop_right

\* The walking speed handlers.
NextWalk == WalkSpeedStep
SpecWalk == Init /\ [][NextWalk]_vars

\* Jumping and falling: the vertical velocity.
NextJump ==
    \/ JumpSpeedStep
    \/ jump
    \/ toggle_flight
    \/ \E delta_time \in DeltaTimes, resolver \in Resolvers : update(delta_time, resolver)
SpecJump == Init /\ [][NextJump]_vars

\* The mouse.
NextSight ==
    \/ \E dx \in MouseMoves, dy \in MouseMoves : adjust_sight(dx, dy)
    \/ call_get_sight_vector
SpecSight == Init /\ [][NextSight]_vars

\* The keyboard.
NextInput ==
    \/ KeyStep
    \/ jump
    \/ toggle_flight
    \/ \E index \in ItemIndices : select_active_item(index)
SpecInput == Init /\ [][NextInput]_vars

\* Walking left and right on flat ground, to the edge of the world and over it.
NextBoundary ==
    \/ move_left
    \/ move_right
    \/ stop_left
    \/ stop_right
    \/ check_player_within_world_boundaries
    \/ \E delta_time \in DeltaTimes, resolver \in GroundResolvers : update(delta_time, resolver)
    \/ \E delta_time \in DeltaTimes, resolver \in GroundResolvers : tick(delta_time, resolver)
SpecBoundary == Init /\ [][NextBoundary]_vars

Next ==
    \/ WalkSpeedStep
    \/ JumpSpeedStep
    \/ KeyStep
    \/ jump
    \/ toggle_flight
    \/ check_player_within_world_boundaries
    \/ \E value \in BOOLEAN : set_ascend(value)
    \/ \E value \in BOOLEAN : set_descend(value)
    \/ call_get_sight_vector
    \/ call_get_motion_vector
    \/ \E index \in ItemIndices : select_active_item(index)
    \/ \E dx \in MouseMoves, dy \in MouseMoves : adjust_sight(dx, dy)
    \/ \E delta_time \in DeltaTimes, resolver \in Resolvers : update(delta_time, resolver)
    \/ \E delta_time \in DeltaTimes, resolver \in Resolvers : tick(delta_time, resolver)
Spec == Init /\ [][Next]_vars

(***************************************************************************)
(* One call from any of a set of states the player can be brought to: each *)
(* field takes values its handlers reach (the walking speeds 5 and 20/3,   *)
(* the velocities of a standing and of a falling player, rotations the     *)
(* mouse movements add up to, the strafe vector of the keys held), the     *)
(* handlers of different fields do not disturb one another, and update     *)
(* with a resolver that puts the player at a place leaves any velocity     *)
(* at that place.  "setup" stands for the calls that led there.            *)
(***************************************************************************)
Keys == {"forward", "backward", "left", "right"}

StrafeOf(held) ==
    <<(IF "backward" \in held THEN 1 ELSE 0) - (IF "forward" \in held THEN 1 ELSE 0),
      (IF "right" \in held THEN 1 ELSE 0) - (IF "left" \in held THEN 1 ELSE 0)>>

SetupYaws == {0, 45 * Units.angle, -90 * Units.angle}
SetupPitches == {-90 * Units.angle, -30 * Units.angle, 0, 60 * Units.angle}
SetupWalkingSpeeds == {5 * Units.speed, 20}
SetupVelocities == {0, -20}
SetupPlaces == {<<0, 0, 0>>, <<Blocks(WIDTH_FROM_ORIGIN_IN_BLOCKS - 3), 0, 0>>}
CallMouseMoves == {-700, 0, 300}
CallItemIndices == {-1, 0, 8}

InitCall ==
    /\ jump_speed_in_blocks_per_second = INITIAL_JUMP_SPEED_IN_BLOCKS_PER_SECOND
    /\ walking_speed_in_blocks_per_second \in SetupWalkingSpeeds
    /\ flying \in BOOLEAN
    /\ ascend \in BOOLEAN
    /\ descend \in BOOLEAN
    /\ keys_held \in SUBSET Keys
    /\ strafe_unit_vector = StrafeOf(keys_held)
    /\ position_in_blocks_from_origin \in SetupPlaces
    /\ rotation_in_degrees \in SetupYaws \X SetupPitches
    /\ vertical_velocity_in_blocks_per_second \in SetupVelocities
    /\ selected_block = inventory[1]
    /\ last = Called("setup", <<>>)

IsSetup == last.op = "setup"

NextCall ==
    \/ IsSetup /\ WalkSpeedStep
    \/ IsSetup /\ JumpSpeedStep
    \/ IsSetup /\ KeyStep
    \/ IsSetup /\ jump
    \/ IsSetup /\ toggle_flight
    \/ IsSetup /\ check_player_within_world_boundaries
    \/ \E value \in BOOLEAN : IsSetup /\ set_ascend(value)
    \/ \E value \in BOOLEAN : IsSetup /\ set_descend(value)
    \/ IsSetup /\ call_get_sight_vector
    \/ IsSetup /\ call_get_motion_vector
    \/ \E index \in CallItemIndices : IsSetup /\ select_active_item(index)
    \/ \E dx \in CallMouseMoves, dy \in CallMouseMoves : IsSetup /\ adjust_sight(dx, dy)
    \/ \E delta_time \in DeltaTimes, resolver \in CallResolvers :
           IsSetup /\ update(delta_time, resolver)

SpecCall == InitCall /\ [][NextCall]_vars

(***************************************************************************)
(* The claims.                                                             *)
(***************************************************************************)
Yaw == rotation_in_degrees[1]
Pitch == rotation_in_degrees[2]
Degrees(n) == n * Units.angle
WalkSpeed(n) == n * Units.speed
WorldEdge == Blocks(WIDTH_FROM_ORIGIN_IN_BLOCKS)

\* C1: whatever update, jump, toggle_flight, increase_jump_speed and decrease_jump_speed calls
\* were made, a player that is not flying has vertical_velocity >= -MAX_FALL_SPEED = -50.
C1_FallSpeedBounded ==
    ~flying => vertical_velocity_in_blocks_per_second >= -50

\* C1's case: an update has brought a player that is not flying to the terminal velocity.
C1_Witness ==
    /\ last.op = "update"
    /\ ~flying
    /\ vertical_velocity_in_blocks_per_second = -MAX_FALL_SPEED_IN_BLOCKS_PER_SECOND

\* C2, as claimed: after any increase_jump_speed and decrease_jump_speed calls,
\* MIN_JUMP_SPEED = 6 <= jump_speed <= MAX_JUMP_SPEED = 16.
C2_JumpSpeedWithinBounds ==
    /\ MIN_JUMP_SPEED_IN_BLOCKS_PER_SECOND = 6
    /\ MAX_JUMP_SPEED_IN_BLOCKS_PER_SECOND = 16
    /\ jump_speed_in_blocks_per_second >= MIN_JUMP_SPEED_IN_BLOCKS_PER_SECOND
    /\ jump_speed_in_blocks_per_second <= MAX_JUMP_SPEED_IN_BLOCKS_PER_SECOND

\* C3: from 5, increase_walk_speed takes the walking speed to 10, then 15, then 20, and every
\* further call leaves it at exactly 20.
C3_IncreaseLadder ==
    [][increase_walk_speed =>
          /\ walking_speed_in_blocks_per_second = WalkSpeed(5)
                 => walking_speed_in_blocks_per_second' = WalkSpeed(10)
          /\ walking_speed_in_blocks_per_second = WalkSpeed(10)
                 => walking_speed_in_blocks_per_second' = WalkSpeed(15)
          /\ walking_speed_in_blocks_per_second = WalkSpeed(15)
                 => walking_speed_in_blocks_per_second' = WalkSpeed(20)
          /\ walking_speed_in_blocks_per_second = WalkSpeed(20)
                 => walking_speed_in_blocks_per_second' = WalkSpeed(20)]_vars

\* C3's case: an increase_walk_speed call has left the walking speed at 20.
C3_Witness ==
    /\ last.op = "increase_walk_speed"
    /\ walking_speed_in_blocks_per_second = WalkSpeed(20)

\* C4, as claimed: decrease_walk_speed never takes the walking speed below MIN_SPEED = 5:
\* called at any speed >= 5 that the walking-speed calls can reach, it leaves a speed >= 5.
C4_DecreaseKeepsMinSpeed ==
    [][(decrease_walk_speed /\ walking_speed_in_blocks_per_second >= WalkSpeed(5))
          => walking_speed_in_blocks_per_second' >= WalkSpeed(5)]_vars

\* C5: jump() sets vertical_velocity to jump_speed when vertical_velocity is exactly 0, leaves it
\* as it is when it is positive or negative, and changes nothing else.
C5_JumpOnlyFromZero ==
    [][jump =>
          /\ vertical_velocity_in_blocks_per_second = 0
                 => vertical_velocity_in_blocks_per_second' = jump_speed_in_blocks_per_second
          /\ vertical_velocity_in_blocks_per_second # 0
                 => vertical_velocity_in_blocks_per_second' = vertical_velocity_in_blocks_per_second
          /\ UNCHANGED <<jump_speed_in_blocks_per_second, walking_speed_in_blocks_per_second,
                         flying, ascend, descend, strafe_unit_vector,
                         position_in_blocks_from_origin, rotation_in_degrees, selected_block>>]_vars

\* C5's case: a jump() call was made while the player was falling, and changed nothing.
C5_Witness ==
    /\ last.op = "jump"
    /\ vertical_velocity_in_blocks_per_second < 0

\* C6, as claimed: from pitch 0, adjust_sight(0, 700) leaves pitch 90 and adjust_sight(0, -700)
\* right after it leaves pitch -90.
C6_ClampedBothWaysInSequence ==
    [][(Pitch = 0 /\ adjust_sight(0, 700)) =>
          /\ rotation_in_degrees'[2] = Degrees(90)
          /\ AdjustedSight(rotation_in_degrees', 0, -700)[2] = Degrees(-90)]_vars

\* C6, amended: from pitch 0, adjust_sight(0, 700) leaves pitch 90 and adjust_sight(0, -700)
\* leaves pitch -90; adjust_sight(0, -700) right after adjust_sight(0, 700) starts from pitch 90
\* and leaves 90 - 105 = -15.
C6_ClampedFromLevel ==
    [][/\ (Pitch = 0 /\ adjust_sight(0, 700)) =>
              /\ rotation_in_degrees'[2] = Degrees(90)
              /\ AdjustedSight(rotation_in_degrees', 0, -700)[2] = Degrees(-15)
       /\ (Pitch = 0 /\ adjust_sight(0, -700)) => rotation_in_degrees'[2] = Degrees(-90)
       /\ (Pitch = Degrees(90) /\ adjust_sight(0, -700)) => rotation_in_degrees'[2] = Degrees(-15)
      ]_vars

\* C6's case: adjust_sight(0, -700) was called on a player looking straight up.
C6_Witness ==
    /\ last = Called("adjust_sight", <<0, -700>>)
    /\ Pitch = Degrees(-15)

\* C7: the pitch always lies in [-90, 90]; adjust_sight(dx, dy) never fails, adds 0.15 * dx to
\* the yaw whatever the yaw is, and leaves the pitch plus 0.15 * dy, or the nearest of -90 and 90
\* when that is out of range.
C7_PitchClampedYawFree ==
    /\ [](Pitch >= Degrees(-90) /\ Pitch <= Degrees(90))
    /\ [][\A dx \in MouseMoves, dy \in MouseMoves :
              adjust_sight(dx, dy) =>
                  /\ last'.raised = "none"
                  /\ rotation_in_degrees'[1] = Yaw + (15 * dx * Units.angle) \div 100
                  /\ LET y == Pitch + (15 * dy * Units.angle) \div 100
                     IN  rotation_in_degrees'[2] =
                             IF y > Degrees(90) THEN Degrees(90)
                             ELSE IF y < Degrees(-90) THEN Degrees(-90)
                             ELSE y]_vars

\* C7's case: the yaw has gone a full turn round, and the pitch was clamped at -90.
C7_Witness ==
    /\ last.op = "adjust_sight"
    /\ last.args[2] = -700
    /\ Abs(Yaw) >= Degrees(360)
    /\ Pitch = Degrees(-90)

KeyValue(key) == IF key \in keys_held THEN 1 ELSE 0

\* C8: while move_X and stop_X alternate for each key, strafe[0] = backward - forward and
\* strafe[1] = right - left over the keys held; so both lie in {-1, 0, 1} and the vector is
\* (0, 0) when no key is held.
C8_StrafeFollowsKeys ==
    /\ strafe_unit_vector[1] = KeyValue("backward") - KeyValue("forward")
    /\ strafe_unit_vector[2] = KeyValue("right") - KeyValue("left")
    /\ strafe_unit_vector[1] \in {-1, 0, 1}
    /\ strafe_unit_vector[2] \in {-1, 0, 1}
    /\ keys_held = {} => strafe_unit_vector = <<0, 0>>

\* C8's case: forward was pressed and released while backward and left stay held.
C8_Witness ==
    /\ last.op = "stop_forward"
    /\ keys_held = {"backward", "left"}
    /\ strafe_unit_vector = <<1, -1>>

C10_ClampToWorld ==
    [][check_player_within_world_boundaries =>
          LET x == position_in_blocks_from_origin[1]
              y == position_in_blocks_from_origin[2]
              z == position_in_blocks_from_origin[3]
              after == position_in_blocks_from_origin'
          IN  /\ x > WorldEdge => after[1] = WorldEdge
              /\ x < -WorldEdge => after[1] = -WorldEdge
              /\ (x >= -WorldEdge /\ x <= WorldEdge) => after[1] = x
              /\ z > WorldEdge => after[3] = WorldEdge
              /\ z < -WorldEdge => after[3] = -WorldEdge
              /\ (z >= -WorldEdge /\ z <= WorldEdge) => after[3] = z
              /\ after[2] = y
              /\ WithinWorldBoundaries(after) = after]_vars

\* C10's case: the boundary pass has moved a player from outside the world, below -W in x and
\* exactly at W in z, onto the edge.
C10_Witness ==
    /\ last.op = "check_player_within_world_boundaries"
    /\ position_in_blocks_from_origin = <<-WorldEdge, -Blocks(2), WorldEdge>>

(***************************************************************************)
(* The step of update, written out from the fields before the call.        *)
(***************************************************************************)
Position == position_in_blocks_from_origin
Velocity == vertical_velocity_in_blocks_per_second
HalfSecondsOfBlocks(n) == n * (Units.position \div Units.time)

\* C11: update hands the resolver, once, the position plus the motion vector times delta_time
\* times the current speed (15 when flying, the walking speed otherwise) plus the vertical term,
\* together with the player height 2, and stores what the resolver returns as it is.
C11_ResolverGetsCandidateOnce ==
    [][last'.op = "update" =>
              LET delta_time == last'.args[1]
                  resolver == last'.args[2]
                  speed == IF flying THEN 15 * Units.speed
                                     ELSE walking_speed_in_blocks_per_second
                  motion == get_motion_vector(strafe_unit_vector, rotation_in_degrees, flying)
                  direction == (IF ascend THEN 1 ELSE 0) - (IF descend THEN 1 ELSE 0)
                  vertical == IF flying THEN HalfSecondsOfBlocks(direction * delta_time * 15)
                                        ELSE HalfSecondsOfBlocks(Velocity' * delta_time)
                  candidate == <<Position[1] + motion[1] * delta_time * speed,
                                 Position[2] + motion[2] * delta_time * speed + vertical,
                                 Position[3] + motion[3] * delta_time * speed>>
              IN  Position' = CASE resolver.kind = "free" -> candidate
                                [] resolver.kind = "ground" ->
                                       <<candidate[1], Max(candidate[2], 0), candidate[3]>>
                                [] resolver.kind = "put" -> resolver.place
                                [] resolver.kind = "lift" ->
                                       <<candidate[1], candidate[2] + Blocks(2), candidate[3]>>
      ]_vars

\* C11's case: a flying player heading forward from the origin for one second has been handed to
\* the lifting resolver: 15 blocks along -z, and up by the height 2 once.
C11_Witness ==
    /\ last = Called("update", <<2, Lifted>>)
    /\ flying
    /\ Position = <<0, Blocks(2), -Blocks(15)>>

\* C12: from (0, 0, 0), rotation (0, 0), not flying, vertical velocity 0, strafe (-1, 0) and
\* walking speed 5, one update of one second with a resolver that returns its candidate leaves
\* the vertical velocity at -20 and the player at x = 0, y = -20, z = -5.
C12_EndToEndTick ==
    [][(/\ Position = <<0, 0, 0>>
        /\ rotation_in_degrees = <<0, 0>>
        /\ ~flying
        /\ Velocity = 0
        /\ strafe_unit_vector = <<-1, 0>>
        /\ walking_speed_in_blocks_per_second = WalkSpeed(5)
        /\ update(2, FreeSpace))
       => /\ Velocity' = -20
          /\ Position' = <<0, -Blocks(20), -Blocks(5)>>]_vars

\* C12's case: that update has been made.
C12_Witness ==
    /\ last = Called("update", <<2, FreeSpace>>)
    /\ ~flying
    /\ strafe_unit_vector = <<-1, 0>>
    /\ rotation_in_degrees = <<0, 0>>
    /\ walking_speed_in_blocks_per_second = WalkSpeed(5)
    /\ Velocity = -20
    /\ Position = <<0, -Blocks(20), -Blocks(5)>>

\* C13: slow_walking_speed divides the walking speed by 3 when it is exactly 5; at any other
\* walking speed it raises an assertion error and leaves every field as it was.
C13_SlowOnlyFromFive ==
    [][slow_walking_speed =>
          IF walking_speed_in_blocks_per_second = WalkSpeed(5)
          THEN /\ 3 * walking_speed_in_blocks_per_second' = WalkSpeed(5)
               /\ last'.raised = "none"
          ELSE /\ last'.raised = "AssertionError"
               /\ UNCHANGED <<jump_speed_in_blocks_per_second,
                              walking_speed_in_blocks_per_second, flying, ascend, descend,
                              strafe_unit_vector, position_in_blocks_from_origin,
                              rotation_in_degrees, vertical_velocity_in_blocks_per_second,
                              selected_block, keys_held>>]_vars

\* C13's case: slow_walking_speed has been refused at the walking speed 10.
C13_Witness ==
    /\ last = Raised("slow_walking_speed", <<>>, "AssertionError")
    /\ walking_speed_in_blocks_per_second = WalkSpeed(10)

\* i mod n with a result in 0..n-1, for i from -2n to 3n - 1.
NonNegativeMod(i, n) == CHOOSE r \in 0..(n - 1) : \E q \in -2..2 : i = q * n + r

\* C14: select_active_item(i) selects the block at the non-negative remainder of i by the
\* inventory's length (-1 selects the last one), so the selected block is always one of the
\* inventory, and i and i + 7 select the same block.
C14_SelectsModuloLength ==
    /\ [](\E k \in 1..Len(inventory) : selected_block = inventory[k])
    /\ [][last'.op = "select_active_item" =>
              LET i == last'.args[1]
              IN  /\ selected_block' = inventory[NonNegativeMod(i, 7) + 1]
                  /\ i = -1 => selected_block' = "DARK_CLOUD"
                  /\ selected_block' = SelectedItem(i + 7)]_vars

\* C14's case: the index -1 has selected the last block of the inventory.
C14_Witness ==
    /\ last = Called("select_active_item", <<-1>>)
    /\ selected_block = "DARK_CLOUD"

\* C16: from a walking speed of 5, 10, 15 or 20, decrease_walk_speed takes 5 off down to 5 and
\* leaves 5 at 5 (from 20: 15, 10, 5, 5).
C16_DecreaseLadder ==
    [][decrease_walk_speed =>
          /\ walking_speed_in_blocks_per_second = WalkSpeed(20)
                 => walking_speed_in_blocks_per_second' = WalkSpeed(15)
          /\ walking_speed_in_blocks_per_second = WalkSpeed(15)
                 => walking_speed_in_blocks_per_second' = WalkSpeed(10)
          /\ walking_speed_in_blocks_per_second = WalkSpeed(10)
                 => walking_speed_in_blocks_per_second' = WalkSpeed(5)
          /\ walking_speed_in_blocks_per_second = WalkSpeed(5)
                 => walking_speed_in_blocks_per_second' = WalkSpeed(5)]_vars

\* C16's case: decrease_walk_speed has been called at the speed 5 and has left it.
C16_Witness ==
    /\ last = Called("decrease_walk_speed", <<>>)
    /\ walking_speed_in_blocks_per_second = WalkSpeed(5)

\* C17: whatever increase_walk_speed, decrease_walk_speed, start_sprinting, slow_walking_speed
\* and reset_walking_speed calls were made, the walking speed is above 0.
C17_WalkingSpeedPositive ==
    walking_speed_in_blocks_per_second > 0

\* C17's case: decrease_walk_speed has brought the walking speed below the minimum speed, to
\* 5/3 (from 20/3).
C17_Witness ==
    /\ last = Called("decrease_walk_speed", <<>>)
    /\ 3 * walking_speed_in_blocks_per_second = WalkSpeed(5)

\* C18: start_sprinting doubles the walking speed whatever it is; above the maximum speed
\* increase_walk_speed leaves the walking speed and decrease_walk_speed takes 5 off.
C18_SprintDoublesUnchecked ==
    [][/\ start_sprinting =>
              walking_speed_in_blocks_per_second' = 2 * walking_speed_in_blocks_per_second
       /\ (increase_walk_speed /\ walking_speed_in_blocks_per_second > WalkSpeed(15)) =>
              walking_speed_in_blocks_per_second' = walking_speed_in_blocks_per_second
       /\ (decrease_walk_speed /\ walking_speed_in_blocks_per_second > WalkSpeed(15)) =>
              walking_speed_in_blocks_per_second'
                  = walking_speed_in_blocks_per_second - WalkSpeed(5)]_vars

\* C18's case: three sprints from 5 have left the walking speed at 40, above the maximum speed
\* and the ladder.
C18_Witness ==
    /\ last = Called("start_sprinting", <<>>)
    /\ walking_speed_in_blocks_per_second = WalkSpeed(40)

\* C15: an update of a flying player leaves the vertical velocity, and raises the player, on top
\* of the motion vector's share, by 15 * delta_time when only ascend is set, by -15 * delta_time
\* when only descend is set and by nothing when both or neither are.
C15_FlightWithoutGravity ==
    [][(last'.op = "update" /\ flying) =>
          LET delta_time == last'.args[1]
              motion == get_motion_vector(strafe_unit_vector, rotation_in_degrees, TRUE)
              raised == Position'[2] - Position[2] - motion[2] * delta_time * 15 * Units.speed
          IN  /\ Velocity' = Velocity
              /\ last'.args[2] = FreeSpace =>
                     /\ (ascend /\ ~descend) => raised = HalfSecondsOfBlocks(15 * delta_time)
                     /\ (descend /\ ~ascend) => raised = -HalfSecondsOfBlocks(15 * delta_time)
                     /\ (ascend <=> descend) => raised = 0]_vars

\* C15's case: a player flying to the right and descending, found with the velocity -20, has been
\* updated by one second: 15 blocks along x, 15 blocks down, the velocity still -20.
C15_Witness ==
    /\ last = Called("update", <<2, FreeSpace>>)
    /\ flying /\ descend /\ ~ascend
    /\ strafe_unit_vector = <<0, 1>>
    /\ Velocity = -20
    /\ Position = <<Blocks(15), -Blocks(15), 0>>

PositionKeepers ==
    {"increase_walk_speed", "decrease_walk_speed", "increase_jump_speed", "decrease_jump_speed",
     "start_sprinting", "slow_walking_speed", "reset_walking_speed", "move_forward",
     "move_backward", "move_left", "move_right", "stop_forward", "stop_backward", "stop_left",
     "stop_right", "jump", "select_active_item", "adjust_sight", "toggle_flight"}

\* C19: the walk and jump speed changes, sprint, slow and reset, the move and stop handlers,
\* jump, select_active_item, adjust_sight and toggle_flight leave the position as it was.
C19_PositionKeptByOtherHandlers ==
    [][last'.op \in PositionKeepers => Position' = Position]_vars

\* C19's case: jump has been called away from the origin, and the player is where it was.
C19_Witness ==
    /\ last = Called("jump", <<>>)
    /\ Velocity = INITIAL_JUMP_SPEED_IN_BLOCKS_PER_SECOND
    /\ Position = <<Blocks(77), 0, 0>>

\* C20: with the strafe vector (0, 0) the motion vector is (0, 0, 0) at every rotation, flying or
\* not, and an update moves the player by the vertical term alone.
C20_NoStrafeNoMotion ==
    /\ [](strafe_unit_vector = <<0, 0>> =>
              /\ get_motion_vector(strafe_unit_vector, rotation_in_degrees, flying) = <<0, 0, 0>>
              /\ get_motion_vector(strafe_unit_vector, rotation_in_degrees, ~flying) = <<0, 0, 0>>)
    /\ [][(last'.op = "update" /\ last'.args[2] = FreeSpace /\ strafe_unit_vector = <<0, 0>>) =>
              LET delta_time == last'.args[1]
                  direction == (IF ascend THEN 1 ELSE 0) - (IF descend THEN 1 ELSE 0)
                  vertical == IF flying THEN HalfSecondsOfBlocks(direction * delta_time * 15)
                                        ELSE HalfSecondsOfBlocks(Velocity' * delta_time)
              IN  Position' = <<Position[1], Position[2] + vertical, Position[3]>>]_vars

\* C20's case: forward and backward are held together, the flying player looks up at 60 degrees
\* and ascends; an update of one second has lifted it 15 blocks and moved it nowhere else.
C20_Witness ==
    /\ last = Called("update", <<2, FreeSpace>>)
    /\ keys_held = {"forward", "backward"}
    /\ strafe_unit_vector = <<0, 0>>
    /\ flying /\ ascend /\ ~descend
    /\ rotation_in_degrees = <<Degrees(45), Degrees(60)>>
    /\ Position = <<0, Blocks(15), 0>>

AllFields ==
    <<jump_speed_in_blocks_per_second, walking_speed_in_blocks_per_second, flying, ascend,
      descend, strafe_unit_vector, position_in_blocks_from_origin, rotation_in_degrees,
      vertical_velocity_in_blocks_per_second, selected_block, keys_held>>

\* C21: at the rotation (0, 0), get_motion_vector returns (0, 0, -1) for the strafe (-1, 0),
\* (0, 0, 1) for (1, 0), (1, 0, 0) for (0, 1) and (-1, 0, 0) for (0, -1), flying or not.
C21_MotionAtLevelRotation ==
    [][(last'.op = "get_motion_vector" /\ rotation_in_degrees = <<0, 0>>) =>
          /\ strafe_unit_vector = <<-1, 0>> => last'.returned = <<0, 0, -Units.trig>>
          /\ strafe_unit_vector = <<1, 0>> => last'.returned = <<0, 0, Units.trig>>
          /\ strafe_unit_vector = <<0, 1>> => last'.returned = <<Units.trig, 0, 0>>
          /\ strafe_unit_vector = <<0, -1>> => last'.returned = <<-Units.trig, 0, 0>>]_vars

\* C21's case: a flying player at the rotation (0, 0) holding left has asked for its motion
\* vector and got (-1, 0, 0).
C21_Witness ==
    /\ last = Returned("get_motion_vector", <<-Units.trig, 0, 0>>)
    /\ flying
    /\ keys_held = {"left"}
    /\ strafe_unit_vector = <<0, -1>>
    /\ rotation_in_degrees = <<0, 0>>

\* C22: get_sight_vector writes no field and returns (0, 0, -1) at the rotation (0, 0),
\* (1, 0, 0) at (90, 0), (0, 0, 1) at (180, 0), (-1, 0, 0) at (270, 0), (0, 1, 0) at (0, 90) and
\* (0, -1, 0) at (0, -90); at pitch 0 it is the unit vector at yaw - 90 degrees in the x-z plane
\* (its squared length within the one percent of the sine's approximation).
C22_SightVector ==
    [][last'.op = "get_sight_vector" =>
          LET sight == last'.returned
          IN  /\ UNCHANGED AllFields
              /\ rotation_in_degrees = <<0, 0>> => sight = <<0, 0, -Units.trig>>
              /\ rotation_in_degrees = <<Degrees(90), 0>> => sight = <<Units.trig, 0, 0>>
              /\ rotation_in_degrees = <<Degrees(180), 0>> => sight = <<0, 0, Units.trig>>
              /\ rotation_in_degrees = <<Degrees(270), 0>> => sight = <<-Units.trig, 0, 0>>
              /\ rotation_in_degrees = <<0, Degrees(90)>> => sight = <<0, Units.trig, 0>>
              /\ rotation_in_degrees = <<0, -Degrees(90)>> => sight = <<0, -Units.trig, 0>>
              /\ Pitch = 0 =>
                     /\ sight = <<Cos(Yaw - Degrees(90)), 0, Sin(Yaw - Degrees(90))>>
                     /\ Abs(sight[1] * sight[1] + sight[3] * sight[3]
                                - Units.trig * Units.trig) * 100 <= Units.trig * Units.trig
      ]_vars

\* C22's case: the player has turned to the yaw 270 at pitch 0 and asked for its sight vector:
\* (-1, 0, 0).
C22_Witness ==
    /\ last = Returned("get_sight_vector", <<-Units.trig, 0, 0>>)
    /\ rotation_in_degrees = <<Degrees(270), 0>>

\* C23: toggle_flight negates flying and writes no other field; on a new player it turns
\* flying on, and a second call gives back the flag the first one found.
C23_ToggleFlightOnly ==
    [][toggle_flight =>
          /\ flying' = ~flying
          /\ ToggledFlight(flying') = flying
          /\ last.op = "__init__" => flying'
          /\ UNCHANGED <<jump_speed_in_blocks_per_second, walking_speed_in_blocks_per_second,
                         ascend, descend, strafe_unit_vector, position_in_blocks_from_origin,
                         rotation_in_degrees, vertical_velocity_in_blocks_per_second,
                         selected_block, keys_held>>]_vars

\* C23's case: toggle_flight has turned flying off again for a player that has fallen for a
\* second: velocity and position are as the update left them.
C23_Witness ==
    /\ last = Called("toggle_flight", <<>>)
    /\ ~flying
    /\ Velocity = -20
    /\ Position = <<0, -Blocks(20), 0>>

\* The walking speed is not a whole number of blocks per second: so it is from a successful
\* slow_walking_speed on, as C24 says, until reset_walking_speed.
Slowed == walking_speed_in_blocks_per_second % Units.speed # 0

\* C24: once slow_walking_speed has succeeded, and until reset_walking_speed is called, every
\* slow_walking_speed call fails, whatever increase_walk_speed, decrease_walk_speed and
\* start_sprinting calls are made; reset_walking_speed sets the walking speed to 5 from any
\* state, and at 5 slow_walking_speed succeeds.
C24_SlowIsOneShot ==
    [][/\ (last'.op = "slow_walking_speed" /\ last'.raised = "none") =>
              (3 * walking_speed_in_blocks_per_second' = WalkSpeed(5) /\ Slowed')
       /\ (Slowed /\ last'.op \in {"increase_walk_speed", "decrease_walk_speed",
                                   "start_sprinting"}) => Slowed'
       /\ (Slowed /\ last'.op = "slow_walking_speed") =>
              (last'.raised = "AssertionError" /\ Slowed')
       /\ last'.op = "reset_walking_speed" =>
              walking_speed_in_blocks_per_second' = WalkSpeed(5)
       /\ (last'.op = "slow_walking_speed"
              /\ walking_speed_in_blocks_per_second = WalkSpeed(5)) =>
              last'.raised = "none"]_vars

\* C24's case: after a successful slow_walking_speed, an increase and a sprint (5/3, 20/3, 40/3),
\* slow_walking_speed has failed.
C24_Witness ==
    /\ last = Raised("slow_walking_speed", <<>>, "AssertionError")
    /\ 3 * walking_speed_in_blocks_per_second = WalkSpeed(40)

C26_PitchInMotionVector ==
    [][(last'.op = "get_motion_vector" /\ strafe_unit_vector # <<0, 0>>) =>
          LET motion == last'.returned
              x_angle == Yaw + StrafeAngle(strafe_unit_vector)
          IN  /\ ~flying => motion = <<Cos(x_angle), 0, Sin(x_angle)>>
              /\ (flying /\ strafe_unit_vector[2] # 0) =>
                     motion = <<Cos(x_angle), 0, Sin(x_angle)>>
              /\ (flying /\ strafe_unit_vector[2] = 0) =>
                     /\ motion[1] = TrigProduct(Cos(x_angle), Cos(Pitch))
                     /\ motion[3] = TrigProduct(Sin(x_angle), Cos(Pitch))
                     /\ strafe_unit_vector[1] < 0 => motion[2] = Sin(Pitch)
                     /\ strafe_unit_vector[1] > 0 => motion[2] = -Sin(Pitch)]_vars

\* C26's case: a player flying backward and looking down at 30 degrees has asked for its motion
\* vector: dy = -sin(-30) = 1/2, and no motion along x.
C26_Witness ==
    /\ last.op = "get_motion_vector"
    /\ last.returned[1] = 0
    /\ 2 * last.returned[2] = Units.trig
    /\ flying
    /\ strafe_unit_vector = <<1, 0>>
    /\ rotation_in_degrees = <<0, -Degrees(30)>>

\* The motion vector of a player that is not flying, for a strafe angle in degrees.
WalkingMotionAt(strafe_angle) ==
    <<Cos(Yaw + Degrees(strafe_angle)), 0, Sin(Yaw + Degrees(strafe_angle))>>

\* C27, as claimed: the strafe angle is atan2 of the left/right component over the forward/back
\* component, 180 for forward (-1, 0), 0 for backward (1, 0), 90 for right (0, 1) and -90 for
\* left (0, -1), and the horizontal direction is at yaw + strafe angle.
C27_StrafeAngleLateralFirst ==
    [][(last'.op = "get_motion_vector" /\ ~flying /\ strafe_unit_vector # <<0, 0>>) =>
          /\ StrafeAngle(strafe_unit_vector)
                 = Atan2Degrees(strafe_unit_vector[2], strafe_unit_vector[1])
          /\ strafe_unit_vector = <<-1, 0>> => last'.returned = WalkingMotionAt(180)
          /\ strafe_unit_vector = <<1, 0>> => last'.returned = WalkingMotionAt(0)
          /\ strafe_unit_vector = <<0, 1>> => last'.returned = WalkingMotionAt(90)
          /\ strafe_unit_vector = <<0, -1>> => last'.returned = WalkingMotionAt(-90)]_vars

\* C27, amended: the strafe angle is atan2 of the forward/back component over the left/right
\* component, -90 for forward (-1, 0), 90 for backward (1, 0), 0 for right (0, 1) and 180 for
\* left (0, -1), and the horizontal direction is at yaw + strafe angle.
C27_StrafeAngleForwardFirst ==
    [][(last'.op = "get_motion_vector" /\ ~flying /\ strafe_unit_vector # <<0, 0>>) =>
          /\ StrafeAngle(strafe_unit_vector)
                 = Atan2Degrees(strafe_unit_vector[1], strafe_unit_vector[2])
          /\ strafe_unit_vector = <<-1, 0>> => last'.returned = WalkingMotionAt(-90)
          /\ strafe_unit_vector = <<1, 0>> => last'.returned = WalkingMotionAt(90)
          /\ strafe_unit_vector = <<0, 1>> => last'.returned = WalkingMotionAt(0)
          /\ strafe_unit_vector = <<0, -1>> => last'.returned = WalkingMotionAt(180)
          /\ strafe_unit_vector = <<-1, -1>> => last'.returned = WalkingMotionAt(-135)
          /\ strafe_unit_vector = <<-1, 1>> => last'.returned = WalkingMotionAt(-45)
          /\ strafe_unit_vector = <<1, 1>> => last'.returned = WalkingMotionAt(45)
          /\ strafe_unit_vector = <<1, -1>> => last'.returned = WalkingMotionAt(135)]_vars

\* C27's case: a walking player turned to the yaw -90 and holding forward has asked for its
\* motion vector: the direction at -90 - 90 = -180 degrees, (-1, 0, 0).
C27_Witness ==
    /\ last = Returned("get_motion_vector", <<-Units.trig, 0, 0>>)
    /\ ~flying
    /\ strafe_unit_vector = <<-1, 0>>
    /\ rotation_in_degrees = <<-Degrees(90), 0>>

====
